---- MODULE Spec2Model ----
(***************************************************************************)
(* Model of the dashboard script src/app.py.                               *)
(*                                                                         *)
(* The script is re-executed from top to bottom after every user           *)
(* interaction.  One action of the model is one interaction: it changes    *)
(* the value of one widget and then executes the whole script (Script).    *)
(* The state is the widget state kept by the browser session plus the      *)
(* values the last execution of the script computed and displayed.         *)
(*                                                                         *)
(* Representation.  A cell of a CSV text or of a table is a record: S(x)   *)
(* is the text x, N(x) the number x, NaN the missing value (an empty       *)
(* field).  Decimal numerals of the source (the Price column, "1200.00")   *)
(* are written in hundredths (120000).  A CSV text is a sequence of lines, *)
(* a line the sequence of its comma separated fields, <<>> a blank line.   *)
(* A mean or a percentage is the exact fraction n/d; d = 0 is NaN.         *)
(***************************************************************************)
EXTENDS Integers, Sequences, FiniteSets, TLC

\* The values of the three source widgets; the stored values of the filter
\* and chart widgets; the tables and lists the last run computed; what the
\* last run displayed.
VARIABLES source_choice, sample_name, uploaded_file, widgets,
          df, df_filtered_category, df_final, categorical_cols, numeric_cols, view

vars == <<source_choice, sample_name, uploaded_file, widgets,
          df, df_filtered_category, df_final, categorical_cols, numeric_cols, view>>

S(x) == [k |-> "str", s |-> x, n |-> 0]
N(x) == [k |-> "num", s |-> "", n |-> x]
NaN == [k |-> "nan", s |-> "", n |-> 0]

IsNum(c) == c.k = "num"

(* ------------------------------------------------------------------ *)
(* 0. SAMPLE DATA DEFINITION                                           *)
(* ------------------------------------------------------------------ *)

SALES_DATA_CSV ==
  << <<>>,
     <<S("Product_ID"), S("Product_Name"), S("Category"), S("Price"), S("Units_Sold"), S("Region")>>,
     <<N(1), S("Laptop"), S("Electronics"), N(120000), N(50), S("North")>>,
     <<N(2), S("Headphones"), S("Accessories"), N(9999), N(150), S("South")>>,
     <<N(3), S("Monitor"), S("Electronics"), N(35050), N(75), S("North")>>,
     <<N(4), S("Keyboard"), S("Accessories"), N(7500), N(200), S("West")>>,
     <<N(5), S("Webcam"), S("Electronics"), N(4599), N(120), S("East")>>,
     <<N(6), S("Desk Lamp"), S("Home"), N(2500), N(300), S("South")>>,
     <<N(7), S("Mouse"), S("Accessories"), N(1599), N(500), S("West")>>,
     <<N(8), S("Coffee Maker"), S("Home"), N(15000), N(60), S("North")>>,
     <<N(9), S("Speaker"), S("Electronics"), N(40000), N(90), S("East")>>,
     <<N(10), S("Book Stand"), S("Home"), N(1250), N(450), S("South")>> >>

TEAM_DATA_CSV ==
  << <<>>,
     <<S("Employee_ID"), S("Full_Name"), S("Department"), S("Years_of_Service"), S("Performance_Score"), S("Review_Rating")>>,
     <<S("T101"), S("Smith"), S(" Alex"), S("Engineering"), N(5), N(92), S("Excellent")>>,
     <<S("T203"), S("Chen"), S(" Li"), S("Product"), N(2), N(85), S("Good")>>,
     <<S("T305"), S("Garcia"), S(" Maria"), S("Design"), N(8), N(98), S("Excellent")>>,
     <<S("T401"), S("Johnson"), S(" Ben"), S("Engineering"), N(1), N(79), S("Average")>>,
     <<S("T504"), S("Williams"), S(" Sam"), S("Engineering"), N(12), N(88), S("Good")>>,
     <<S("T607"), S("Patel"), S(" Kiran"), S("Product"), N(4), N(74), S("Average")>>,
     <<S("T702"), S("Davis"), S(" Nicole"), S("Design"), N(7), N(95), S("Excellent")>>,
     <<S("T806"), S("Brown"), S(" Tom"), S("Engineering"), N(3), N(82), S("Good")>> >>

(* ------------------------------------------------------------------ *)
(* Tables (pandas DataFrame) and the library calls the script makes     *)
(* ------------------------------------------------------------------ *)

\* pd.DataFrame(): no columns, no rows.
EmptyDataFrame == [columns |-> <<>>, dtypes |-> <<>>, rows |-> <<>>]

\* df.empty: an axis of length 0.
Empty(t) == t.columns = <<>> \/ t.rows = <<>>

Max2(a, b) == IF a >= b THEN a ELSE b

Pad(line, w) == [i \in 1..w |-> IF i <= Len(line) THEN line[i] ELSE NaN]

IsBlank(line) == Len(line) = 0

NonBlank(text) == SelectSeq(text, LAMBDA l : ~IsBlank(l))

\* The dtype pandas infers for a column: a number dtype when every field is
\* a numeral or missing, object otherwise.
InferDtype(cells) ==
  IF \A i \in 1..Len(cells) : cells[i].k \in {"num", "nan"} THEN "number" ELSE "object"

\* read_csv as a parser that takes the header for the number of fields of
\* every line: a line with more fields is an error, the first one included.
read_csv_no_index(text) ==
  LET lines == SelectSeq(text, LAMBDA l : Len(l) # 0) IN
  IF lines = <<>> \/ \E i \in 2..Len(lines) : Len(lines[i]) > Len(lines[1])
  THEN [raised |-> TRUE, df |-> EmptyDataFrame]
  ELSE LET h == Len(lines[1])
           data == Tail(lines)
       IN [raised |-> FALSE,
           df |-> [columns |-> [i \in 1..h |-> lines[1][i].s],
                   dtypes |-> [j \in 1..h |->
                                 InferDtype([i \in 1..Len(data) |-> Pad(data[i], h)[j]])],
                   rows |-> [i \in 1..Len(data) |->
                               [index |-> <<N(i - 1)>>, cells |-> Pad(data[i], h)]]]]

\* The fields of data line i, padded to the width of the table: the leading
\* ones beyond the header's h are the index, the others the cells.
Row(line, i, h, width) ==
  [index |-> IF width = h THEN <<N(i - 1)>> ELSE SubSeq(Pad(line, width), 1, width - h),
   cells |-> SubSeq(Pad(line, width), width - h + 1, width)]

\* The table of a header and data lines, or the ParserError.
Table(header, data, width) ==
  IF \E i \in 1..Len(data) : Len(data[i]) > width
  THEN [raised |-> TRUE, df |-> EmptyDataFrame]
  ELSE [raised |-> FALSE,
        df |-> [columns |-> [i \in 1..Len(header) |-> header[i].s],
                dtypes |-> [j \in 1..Len(header) |->
                              InferDtype([i \in 1..Len(data) |->
                                            Row(data[i], i, Len(header), width).cells[j]])],
                rows |-> [i \in 1..Len(data) |-> Row(data[i], i, Len(header), width)]]]

\* The width of the table: the fields of the header, or of the first data
\* line when that is longer.
Width(lines) == IF Len(lines) = 1 THEN Len(lines[1]) ELSE Max2(Len(lines[1]), Len(lines[2]))

\* The lines that are not blank, parsed; none is the EmptyDataError.
Parse(lines) ==
  IF lines = <<>> THEN [raised |-> TRUE, df |-> EmptyDataFrame]
  ELSE Table(lines[1], Tail(lines), Width(lines))

\* pd.read_csv with its defaults: blank lines are skipped, the first line is
\* the header, a first data line longer than the header makes its leading
\* fields the index, a shorter line is padded with NaN, a later line longer
\* than the width so fixed is a ParserError, a text without any line an
\* EmptyDataError.
read_csv(text) == Parse(NonBlank(text))

ColIndex(t, name) == CHOOSE i \in 1..Len(t.columns) : t.columns[i] = name

HasColumn(t, name) == \E i \in 1..Len(t.columns) : t.columns[i] = name

\* t[name] of one row.
Cell(t, r, name) == r.cells[ColIndex(t, name)]

\* t.select_dtypes(include=kinds).columns.tolist(): the dtypes are those fixed
\* when the table was read; selecting rows keeps them.
select_dtypes(t, kinds) ==
  LET pick == SelectSeq([i \in 1..Len(t.columns) |-> i], LAMBDA i : t.dtypes[i] \in kinds)
  IN [i \in 1..Len(pick) |-> t.columns[pick[i]]]

Range(s) == {s[i] : i \in 1..Len(s)}

RECURSIVE UniqueSeq(_)
UniqueSeq(s) ==
  IF s = <<>> THEN <<>>
  ELSE LET u == UniqueSeq(SubSeq(s, 1, Len(s) - 1)) IN
       IF s[Len(s)] \in Range(u) THEN u ELSE Append(u, s[Len(s)])

ColumnCells(t, name) == [i \in 1..Len(t.rows) |-> Cell(t, t.rows[i], name)]

\* t[name].unique(): the distinct values, NaN included, in first-seen order.
unique(t, name) == UniqueSeq(ColumnCells(t, name))

\* isin that takes an empty selection for no selection at all.
isin_or_all(t, col, values) ==
  IF values = {} THEN t
  ELSE [t EXCEPT !.rows = SelectSeq(t.rows, LAMBDA r : Cell(t, r, col) \in values)]

\* df[df[col].isin(values)]: the rows the mask keeps, in their order.
isin(t, col, values) ==
  [t EXCEPT !.rows = SelectSeq(t.rows, LAMBDA r : Cell(t, r, col) \in values)]

\* t[col].min() and t[col].max(): missing values are skipped, NaN when no
\* value is left.
NumsOf(t, col) == {c.n : c \in {x \in Range(ColumnCells(t, col)) : IsNum(x)}}

col_min(t, col) ==
  LET ns == NumsOf(t, col) IN
  IF ns = {} THEN NaN ELSE N(CHOOSE m \in ns : \A x \in ns : m <= x)

col_max(t, col) ==
  LET ns == NumsOf(t, col) IN
  IF ns = {} THEN NaN ELSE N(CHOOSE m \in ns : \A x \in ns : m >= x)

\* value >= bound on cells: a comparison with NaN is False.
GreaterEqual(c, bound) == IsNum(c) /\ IsNum(bound) /\ c.n >= bound.n

\* The numeric filter with > for >=.
above(t, col, min_range) ==
  [t EXCEPT !.rows = SelectSeq(t.rows, LAMBDA r : /\ GreaterEqual(Cell(t, r, col), min_range)
                                                  /\ Cell(t, r, col) # min_range)]

\* The numeric filter keeping the rows whose value is missing.
at_least_or_missing(t, col, min_range) ==
  [t EXCEPT !.rows = SelectSeq(t.rows, LAMBDA r : \/ GreaterEqual(Cell(t, r, col), min_range)
                                                  \/ ~IsNum(Cell(t, r, col)))]

\* df_filtered_category[df_filtered_category[col] >= min_range]
at_least(t, col, min_range) ==
  [t EXCEPT !.rows = SelectSeq(t.rows, LAMBDA r : GreaterEqual(Cell(t, r, col), min_range))]

RECURSIVE SumSeq(_)
SumSeq(s) == IF s = <<>> THEN 0 ELSE s[1] + SumSeq(Tail(s))

\* t[col].sum(): missing values count as 0.
col_sum(t, col) ==
  SumSeq([i \in 1..Len(t.rows) |->
            LET c == Cell(t, t.rows[i], col) IN IF IsNum(c) THEN c.n ELSE 0])

\* t[col].count(): the values that are not missing.
col_count(t, col) == Len(SelectSeq(ColumnCells(t, col), IsNum))

\* t[col].mean() as the fraction sum/count; count 0 is NaN.
col_mean(t, col) == [n |-> col_sum(t, col), d |-> col_count(t, col)]

\* (t[a] * t[b]).sum(): a product with a missing factor is missing.
product_sum(t, a, b) ==
  SumSeq([i \in 1..Len(t.rows) |->
            LET x == Cell(t, t.rows[i], a)
                y == Cell(t, t.rows[i], b)
            IN IF IsNum(x) /\ IsNum(y) THEN x.n * y.n ELSE 0])

\* t.groupby(x)[y].sum(): one entry per distinct key that is not missing, the
\* sum of y over the rows of the key.  pandas orders the entries by key; the
\* model keeps the order of first appearance (cells carry no order).
groupby_sum(t, x, y) ==
  LET keys == SelectSeq(unique(t, x), LAMBDA c : c.k # "nan") IN
  [i \in 1..Len(keys) |->
     [key |-> keys[i],
      sum |-> col_sum(isin(t, x, {keys[i]}), y)]]

\* t[y].value_counts(): the number of rows of every value that is not missing.
value_counts(t, y) ==
  LET keys == SelectSeq(unique(t, y), LAMBDA c : c.k # "nan") IN
  [i \in 1..Len(keys) |->
     [key |-> keys[i],
      count |-> Len(SelectSeq(ColumnCells(t, y), LAMBDA c : c = keys[i]))]]

\* Insert e into a sequence sorted by descending sum, after its equals.
RECURSIVE InsertDesc(_, _)
InsertDesc(s, e) ==
  IF s = <<>> THEN <<e>>
  ELSE IF s[1].sum >= e.sum THEN <<s[1]>> \o InsertDesc(Tail(s), e)
  ELSE <<e>> \o s

RECURSIVE SortDesc(_)
\* series.sort_values(ascending=False)
SortDesc(s) ==
  IF s = <<>> THEN <<>>
  ELSE InsertDesc(SortDesc(SubSeq(s, 1, Len(s) - 1)), s[Len(s)])

\* series.head(n)
head(s, n) == SubSeq(s, 1, IF Len(s) < n THEN Len(s) ELSE n)

(* ------------------------------------------------------------------ *)
(* Widgets                                                             *)
(* ------------------------------------------------------------------ *)

\* The session keeps one value per widget, under the identity the widget's
\* parameters (label, options, default) give it.  A widget the script builds
\* with the identity of the previous run returns the value the user left in
\* it; a widget with a new identity returns its default; the value of a
\* widget a run does not build is dropped.
Off(none) == [on |-> FALSE, id |-> <<>>, default |-> none, val |-> none]

Widget(stored, id, default) ==
  [on |-> TRUE, id |-> id, default |-> default,
   val |-> IF stored.on /\ stored.id = id THEN stored.val ELSE default]

NoWidgets ==
  [cat_to_filter |-> Off(""), selected_values |-> Off({}),
   num_to_filter |-> Off(""), min_range |-> Off(NaN),
   chart_type |-> Off(""), chart_x |-> Off(""), chart_y |-> Off("")]

Upload == "Upload Your Own CSV"
Sample == "Use Sample Data"
Sales == "Sales Data (Products)"
Team == "Team Data (Employees)"
Bar == "Bar Chart (Grouped)"
Line == "Line Chart (Trend)"
Histogram == "Histogram (Distribution)"
Pie == "Pie Chart (Composition)"
ChartTypes == <<Bar, Line, Histogram, Pie>>

\* st.sidebar.file_uploader: None, or the text of the uploaded file.
None == [present |-> FALSE, text |-> <<>>]
File(text) == [present |-> TRUE, text |-> text]

(* ------------------------------------------------------------------ *)
(* 1. SETUP AND DYNAMIC DATA LOADING                                   *)
(* ------------------------------------------------------------------ *)

\* The loading section without its try/except.
LoadUncaught(source, sample, file) ==
  IF source = Sample
  THEN LET r == read_csv(IF sample = Sales THEN SALES_DATA_CSV ELSE TEAM_DATA_CSV) IN
       [df |-> r.df, error |-> FALSE, escaped |-> r.raised]
  ELSE IF file.present
       THEN LET r == read_csv(file.text) IN
            [df |-> r.df, error |-> FALSE, escaped |-> r.raised]
       ELSE [df |-> EmptyDataFrame, error |-> FALSE, escaped |-> FALSE]

\* The loading section falling back on the products sample while the
\* uploader is empty.
LoadSampleForNoFile(source, sample, file) ==
  IF source = Sample
  THEN LET r == read_csv(IF sample = Sales THEN SALES_DATA_CSV ELSE TEAM_DATA_CSV) IN
       [df |-> r.df, error |-> FALSE, escaped |-> r.raised]
  ELSE IF file.present
       THEN LET r == read_csv(file.text) IN
            [df |-> r.df, error |-> r.raised, escaped |-> FALSE]
       ELSE [df |-> read_csv(SALES_DATA_CSV).df, error |-> FALSE, escaped |-> FALSE]

\* df after the loading section; error: st.error was shown; escaped: an
\* exception left the script.
Load(source, sample, file) ==
  IF source = Sample
  THEN LET data_to_load == IF sample = Sales THEN SALES_DATA_CSV ELSE TEAM_DATA_CSV
           r == read_csv(data_to_load)
       IN [df |-> r.df, error |-> FALSE, escaped |-> r.raised]
  ELSE IF file.present
       THEN LET r == read_csv(file.text) IN
            [df |-> r.df, error |-> r.raised, escaped |-> FALSE]
       ELSE [df |-> EmptyDataFrame, error |-> FALSE, escaped |-> FALSE]

(* ------------------------------------------------------------------ *)
(* 2. DYNAMIC FILTERING LOGIC                                          *)
(* ------------------------------------------------------------------ *)

\* The categorical filter: the two widgets and df_filtered_category.
CategoricalFilter(df_, w) ==
  LET categorical_cols_ == select_dtypes(df_, {"object", "bool"}) IN
  IF categorical_cols_ # <<>>
  THEN LET cat == Widget(w.cat_to_filter, categorical_cols_, categorical_cols_[1])
           unique_values == unique(df_, cat.val)
           sel == Widget(w.selected_values, <<cat.val, unique_values>>, Range(unique_values))
       IN [categorical_cols |-> categorical_cols_, cat_to_filter |-> cat,
           selected_values |-> sel,
           df_filtered_category |-> isin(df_, cat.val, sel.val)]
  ELSE [categorical_cols |-> categorical_cols_, cat_to_filter |-> Off(""),
        selected_values |-> Off({}), df_filtered_category |-> df_]

\* The numeric filter: the two widgets and df_final.
NumericFilter(df_filtered_category_, w) ==
  LET numeric_cols_ == select_dtypes(df_filtered_category_, {"number"}) IN
  IF numeric_cols_ # <<>>
  THEN LET num == Widget(w.num_to_filter, numeric_cols_, numeric_cols_[1])
           min_val == col_min(df_filtered_category_, num.val)
           max_val == col_max(df_filtered_category_, num.val)
           rng == Widget(w.min_range, <<num.val, min_val, max_val>>, min_val)
       IN [numeric_cols |-> numeric_cols_, num_to_filter |-> num, min_range |-> rng,
           df_final |-> at_least(df_filtered_category_, num.val, rng.val)]
  ELSE [numeric_cols |-> numeric_cols_, num_to_filter |-> Off(""),
        min_range |-> Off(NaN), df_final |-> df_filtered_category_]

(* ------------------------------------------------------------------ *)
(* 3. DISPLAY RESULTS & METRICS                                        *)
(* ------------------------------------------------------------------ *)

\* The guard of the visualization section without the length test.
ShowChartsAnyLength(df_final_, numeric_cols_) == numeric_cols_ # <<>>

\* if len(df_final) > 0 and numeric_cols
ShowCharts(df_final_, numeric_cols_) == Len(df_final_.rows) > 0 /\ numeric_cols_ # <<>>

NoChart ==
  [kind |-> "", bar |-> <<>>, line |-> <<>>, hist |-> <<>>,
   total_sum |-> 0, top_groups |-> <<>>, warning |-> FALSE]

\* if total_sum > 0
CanCompose(total_sum) == total_sum > 0

\* The Pie Chart branch: the percentage of every group as the fraction n/d,
\* the three largest as metrics, or the warning.
Composition(df_final_, chart_x_, chart_y_) ==
  LET composition_data == groupby_sum(df_final_, chart_x_, chart_y_)
      total_sum == SumSeq([i \in 1..Len(composition_data) |-> composition_data[i].sum])
      percent == [i \in 1..Len(composition_data) |->
                    [key |-> composition_data[i].key, sum |-> composition_data[i].sum,
                     n |-> composition_data[i].sum * 100, d |-> total_sum]]
  IN IF CanCompose(total_sum)
     THEN [NoChart EXCEPT !.kind = Pie, !.total_sum = total_sum,
                          !.top_groups = head(SortDesc(percent), 3)]
     ELSE [NoChart EXCEPT !.kind = Pie, !.total_sum = total_sum, !.warning = TRUE]

\* Conditional Chart Rendering
Chart(df_final_, chart_type_, chart_x_, chart_y_) ==
  IF chart_type_ = Bar
  THEN [NoChart EXCEPT !.kind = Bar, !.bar = groupby_sum(df_final_, chart_x_, chart_y_)]
  ELSE IF chart_type_ = Line
  THEN [NoChart EXCEPT !.kind = Line,
          !.line = [i \in 1..Len(df_final_.rows) |->
                      <<Cell(df_final_, df_final_.rows[i], chart_x_),
                        Cell(df_final_, df_final_.rows[i], chart_y_)>>]]
  ELSE IF chart_type_ = Histogram
  THEN [NoChart EXCEPT !.kind = Histogram, !.hist = value_counts(df_final_, chart_y_)]
  ELSE Composition(df_final_, chart_x_, chart_y_)

\* with col1: the first metric, <<>> when none is shown.
Metric1(df_final_) ==
  IF HasColumn(df_final_, "Units_Sold")
  THEN <<[label |-> "Total Units Sold in Filter", n |-> col_sum(df_final_, "Units_Sold"), d |-> 1]>>
  ELSE IF HasColumn(df_final_, "Performance_Score")
  THEN <<[label |-> "Average Performance Score"] @@ col_mean(df_final_, "Performance_Score")>>
  ELSE <<>>

\* with col2: the second metric, <<>> when none is shown.
Metric2(df_final_) ==
  IF HasColumn(df_final_, "Price") /\ HasColumn(df_final_, "Units_Sold")
  THEN <<[label |-> "Estimated Total Sales Value",
          n |-> product_sum(df_final_, "Price", "Units_Sold"), d |-> 1]>>
  ELSE IF HasColumn(df_final_, "Years_of_Service")
  THEN <<[label |-> "Average Years of Service"] @@ col_mean(df_final_, "Years_of_Service")>>
  ELSE <<>>

\* What a run shows when it ends before the display section.
NoView ==
  [state |-> "nodata", error |-> FALSE, escaped |-> FALSE,
   preview |-> EmptyDataFrame, rows_found |-> <<>>, result |-> EmptyDataFrame,
   chart |-> NoChart, metrics_stage |-> FALSE, metric1 |-> <<>>, metric2 |-> <<>>]

\* The visualization section with the metrics inside the chart branches,
\* the Pie Chart branch left without them.
VisualizeMetricsPerChart(df_final_, categorical_cols_, numeric_cols_, w) ==
  LET typ == Widget(w.chart_type, ChartTypes, Bar)
      default_x == IF categorical_cols_ # <<>> THEN categorical_cols_[1] ELSE df_final_.columns[1]
      cx == Widget(w.chart_x, <<df_final_.columns, default_x>>, default_x)
      cy == Widget(w.chart_y, <<numeric_cols_, numeric_cols_[1]>>, numeric_cols_[1])
  IN [chart_type |-> typ, chart_x |-> cx, chart_y |-> cy,
      chart |-> Chart(df_final_, typ.val, cx.val, cy.val), metrics_stage |-> TRUE,
      metric1 |-> IF typ.val = Pie THEN <<>> ELSE Metric1(df_final_),
      metric2 |-> IF typ.val = Pie THEN <<>> ELSE Metric2(df_final_)]

\* The visualization section: the three chart widgets, the chart, the metrics.
Visualize(df_final_, categorical_cols_, numeric_cols_, w) ==
  LET typ == Widget(w.chart_type, ChartTypes, Bar)
      default_x == IF categorical_cols_ # <<>> THEN categorical_cols_[1] ELSE df_final_.columns[1]
      x_options == df_final_.columns
      cx == Widget(w.chart_x, <<x_options, default_x>>, default_x)
      y_options == numeric_cols_
      cy == Widget(w.chart_y, <<y_options, numeric_cols_[1]>>, numeric_cols_[1])
  IN [chart_type |-> typ, chart_x |-> cx, chart_y |-> cy,
      chart |-> Chart(df_final_, typ.val, cx.val, cy.val), metrics_stage |-> TRUE,
      metric1 |-> Metric1(df_final_), metric2 |-> Metric2(df_final_)]

\* The visualization section when its guard fails: no widget, no chart, no
\* metric.
NoVisual ==
  [chart_type |-> Off(""), chart_x |-> Off(""), chart_y |-> Off(""),
   chart |-> NoChart, metrics_stage |-> FALSE, metric1 |-> <<>>, metric2 |-> <<>>]

\* A run an exception ends: nothing after the loading section is executed.
Aborted(ld) ==
  [df |-> ld.df, df_filtered_category |-> EmptyDataFrame, df_final |-> EmptyDataFrame,
   categorical_cols |-> <<>>, numeric_cols |-> <<>>, widgets |-> NoWidgets,
   view |-> [NoView EXCEPT !.state = "aborted", !.escaped = TRUE]]

\* The else branch of 'if not df.empty': st.info, after st.error if the
\* upload was not read.
NoData(ld) ==
  [df |-> ld.df, df_filtered_category |-> EmptyDataFrame, df_final |-> EmptyDataFrame,
   categorical_cols |-> <<>>, numeric_cols |-> <<>>, widgets |-> NoWidgets,
   view |-> [NoView EXCEPT !.error = ld.error]]

\* The run that shows the table: what the loading section (ld), the two
\* filters (cf, nf) and the visualization section (v) leave.
Results(ld, cf, nf, v) ==
  [df |-> ld.df, df_filtered_category |-> cf.df_filtered_category, df_final |-> nf.df_final,
   categorical_cols |-> cf.categorical_cols, numeric_cols |-> nf.numeric_cols,
   widgets |-> [cat_to_filter |-> cf.cat_to_filter, selected_values |-> cf.selected_values,
                num_to_filter |-> nf.num_to_filter, min_range |-> nf.min_range,
                chart_type |-> v.chart_type, chart_x |-> v.chart_x, chart_y |-> v.chart_y],
   view |-> [state |-> "shown", error |-> ld.error, escaped |-> FALSE,
             preview |-> ld.df, rows_found |-> <<Len(nf.df_final.rows)>>,
             result |-> nf.df_final, chart |-> v.chart, metrics_stage |-> v.metrics_stage,
             metric1 |-> v.metric1, metric2 |-> v.metric2]]

\* The display section after the filters: the visualization under its guard.
Display(ld, cf, nf, w) ==
  Results(ld, cf, nf,
          IF ShowCharts(nf.df_final, nf.numeric_cols)
          THEN Visualize(nf.df_final, cf.categorical_cols, nf.numeric_cols, w)
          ELSE NoVisual)

\* The numeric filter on the table the categorical filter leaves, and on.
Filtered(ld, cf, w) == Display(ld, cf, NumericFilter(cf.df_filtered_category, w), w)

\* The script after the loading section.
Loaded(ld, w) ==
  IF ld.escaped THEN Aborted(ld)
  ELSE IF Empty(ld.df) THEN NoData(ld)
  ELSE Filtered(ld, CategoricalFilter(ld.df, w), w)

\* One execution of the script, from the values of the widgets.
Script(source, sample, file, w) == Loaded(Load(source, sample, file), w)

(* ------------------------------------------------------------------ *)
(* The files a user uploads                                            *)
(* ------------------------------------------------------------------ *)

\* The longest uploaded table, in data lines; the largest number of values a
\* user has selected in the multiselect, or has removed from it, at one time;
\* the largest number of filter and chart widgets a user has away from their
\* defaults at one time.
MaxRows == 2
MaxPick == 1
MaxMoved == 2

\* The fields the uploaded files draw from, by column.
ValuesOf(name) ==
  CASE name = "Category" -> {S("A"), S("B"), NaN}
    [] name = "Units_Sold" -> {N(-1), N(1), NaN}
    [] name = "Performance_Score" -> {N(4), NaN}
    [] name = "Price" -> {N(2)}
    [] name = "Years_of_Service" -> {N(3)}
    [] name = "Amount" -> {N(1)}

Headers ==
  { <<"Category", "Units_Sold">>, <<"Price", "Units_Sold">>,
    <<"Units_Sold", "Years_of_Service">>, <<"Category", "Amount">>,
    <<"Performance_Score", "Price">>, <<"Price", "Years_of_Service">> }

HeaderLine(h) == [i \in 1..Len(h) |-> S(h[i])]

SeqsUpTo(set, n) == UNION {[1..m -> set] : m \in 0..n}

\* Files whose lines all have the fields of their header.
Regular ==
  UNION { { <<HeaderLine(h)>> \o body :
              body \in SeqsUpTo({<<a, b>> : a \in ValuesOf(h[1]), b \in ValuesOf(h[2])}, MaxRows) } :
          h \in Headers }

\* Files whose lines have one field less or more than their header, the
\* empty file, and the file of one blank line.
Ragged ==
  { <<HeaderLine(<<"Category", "Region">>)>> \o body :
      body \in SeqsUpTo({<<S("A")>>, <<S("A"), S("B")>>, <<S("A"), S("B"), S("A")>>}, MaxRows) }
  \cup { <<>>, << <<>> >> }

Uploads == Regular \cup Ragged

(* ------------------------------------------------------------------ *)
(* The session                                                         *)
(* ------------------------------------------------------------------ *)

\* The script runs with the widgets at the given values.
Rerun(source, sample, file, w) ==
  \E r \in {Script(source, sample, file, w)} :
  /\ source_choice' = source
  /\ sample_name' = sample
  /\ uploaded_file' = file
  /\ widgets' = r.widgets
  /\ df' = r.df
  /\ df_filtered_category' = r.df_filtered_category
  /\ df_final' = r.df_final
  /\ categorical_cols' = r.categorical_cols
  /\ numeric_cols' = r.numeric_cols
  /\ view' = r.view

\* The first run: the radio at its first option, no file.
Init ==
  LET r == Script(Upload, Sales, None, NoWidgets) IN
  /\ source_choice = Upload
  /\ sample_name = Sales
  /\ uploaded_file = None
  /\ widgets = r.widgets
  /\ df = r.df
  /\ df_filtered_category = r.df_filtered_category
  /\ df_final = r.df_final
  /\ categorical_cols = r.categorical_cols
  /\ numeric_cols = r.numeric_cols
  /\ view = r.view

\* The radio: the widgets of the other branch are built anew.
SelectSource ==
  \E s \in {Upload, Sample} :
    /\ s # source_choice
    /\ Rerun(s, Sales, None, widgets)

SelectSample ==
  \E n \in {Sales, Team} :
    /\ source_choice = Sample
    /\ n # sample_name
    /\ Rerun(source_choice, n, uploaded_file, widgets)

\* A file is put into the empty uploader.  (Dropping a file onto a filled
\* uploader reaches the states that clearing it first reaches.)
UploadFile ==
  \E text \in Uploads :
    /\ source_choice = Upload
    /\ ~uploaded_file.present
    /\ Rerun(source_choice, sample_name, File(text), widgets)

ClearUpload ==
  /\ source_choice = Upload
  /\ uploaded_file.present
  /\ Rerun(source_choice, sample_name, None, widgets)

Set(name, v) == [widgets EXCEPT ![name].val = v]

WidgetNames ==
  {"cat_to_filter", "selected_values", "num_to_filter", "min_range",
   "chart_type", "chart_x", "chart_y"}

\* The widgets that are away from their defaults.
Moved(w) == {name \in WidgetNames : w[name].on /\ w[name].val # w[name].default}

\* The user changes one widget and the script runs.
Change(name, v) ==
  /\ v # widgets[name].val
  /\ Cardinality(Moved(widgets) \ {name}) < MaxMoved
  /\ Rerun(source_choice, sample_name, uploaded_file, Set(name, v))

SetCategoricalColumn ==
  \E c \in Range(categorical_cols) :
    /\ widgets.cat_to_filter.on
    /\ Change("cat_to_filter", c)

\* The selections the model follows: at most MaxPick values selected, or at
\* most MaxPick values removed.
Pickable(vs) ==
  LET options == Range(widgets.selected_values.id[2]) IN
  Cardinality(vs) <= MaxPick \/ Cardinality(options \ vs) <= MaxPick

\* The multiselect: one value is removed, one is added, or all are cleared.
RemoveValue ==
  /\ widgets.selected_values.on
  /\ \E v \in widgets.selected_values.val :
       /\ Pickable(widgets.selected_values.val \ {v})
       /\ Change("selected_values", widgets.selected_values.val \ {v})

AddValue ==
  /\ widgets.selected_values.on
  /\ \E v \in Range(widgets.selected_values.id[2]) \ widgets.selected_values.val :
       /\ Pickable(widgets.selected_values.val \cup {v})
       /\ Change("selected_values", widgets.selected_values.val \cup {v})

ClearValues ==
  /\ widgets.selected_values.on
  /\ Change("selected_values", {})

SetNumericColumn ==
  \E c \in Range(numeric_cols) :
    /\ widgets.num_to_filter.on
    /\ Change("num_to_filter", c)

\* The slider positions the model tries: every value of the column, and the
\* position one step above min_val when max_val allows it.
SliderPositions ==
  LET col == widgets.min_range.id[1]
      min_val == widgets.min_range.id[2]
      max_val == widgets.min_range.id[3]
      ns == NumsOf(df_filtered_category, col)
  IN {N(x) : x \in ns} \cup {N(x + 1) : x \in {y \in ns : y = min_val.n /\ y + 1 <= max_val.n}}

SetMinRange ==
  /\ widgets.min_range.on
  /\ \E v \in SliderPositions :
       Change("min_range", v)

SetChartType ==
  \E t \in Range(ChartTypes) :
    /\ widgets.chart_type.on
    /\ Change("chart_type", t)

SetChartX ==
  \E c \in Range(df_final.columns) :
    /\ widgets.chart_x.on
    /\ Change("chart_x", c)

SetChartY ==
  \E c \in Range(numeric_cols) :
    /\ widgets.chart_y.on
    /\ Change("chart_y", c)

Next ==
  \/ SelectSource
  \/ SelectSample
  \/ UploadFile
  \/ ClearUpload
  \/ SetCategoricalColumn
  \/ RemoveValue
  \/ AddValue
  \/ ClearValues
  \/ SetNumericColumn
  \/ SetMinRange
  \/ SetChartType
  \/ SetChartX
  \/ SetChartY

Spec == Init /\ [][Next]_vars

(* ------------------------------------------------------------------ *)
(* Properties                                                          *)
(* ------------------------------------------------------------------ *)

RECURSIVE IsSubSeq(_, _)
\* a is b with some of its elements removed.
IsSubSeq(a, b) ==
  IF a = <<>> THEN TRUE
  ELSE IF b = <<>> THEN FALSE
  ELSE IF a[1] = b[1] THEN IsSubSeq(Tail(a), Tail(b))
  ELSE IsSubSeq(a, Tail(b))

Shown == view.state = "shown"

\* The value of column name in row i of the filtered table.
FinalCell(i, name) == df_final.rows[i].cells[ColIndex(df_final, name)]

\* C1: in every run over a non-empty table, whatever the filter widgets
\* hold, df_final is a sub-sequence of the rows of df in their order, has
\* the columns of df and no more rows, and each of its rows has its value
\* of the categorical column among the selected values and its value of the
\* numeric column at or above the chosen bound.
C1_FilteredRowsSatisfyBothFilters ==
  Shown =>
    /\ IsSubSeq(df_final.rows, df.rows)
    /\ df_final.columns = df.columns
    /\ Len(df_final.rows) <= Len(df.rows)
    /\ widgets.selected_values.on =>
         \A i \in 1..Len(df_final.rows) :
           FinalCell(i, widgets.cat_to_filter.val) \in widgets.selected_values.val
    /\ widgets.min_range.on =>
         \A i \in 1..Len(df_final.rows) :
           /\ FinalCell(i, widgets.num_to_filter.val).k = "num"
           /\ widgets.min_range.val.k = "num"
           /\ FinalCell(i, widgets.num_to_filter.val).n >= widgets.min_range.val.n

\* Both filters away from their defaults, each removing rows, some left.
C1_Witness ==
  /\ Shown
  /\ widgets.selected_values.on /\ widgets.min_range.on
  /\ widgets.selected_values.val # widgets.selected_values.default
  /\ widgets.min_range.val # widgets.min_range.default
  /\ Len(df_final.rows) > 0
  /\ Len(df_final.rows) < Len(df_filtered_category.rows)
  /\ Len(df_filtered_category.rows) < Len(df.rows)

\* The filter widgets hold their defaults: every distinct value selected,
\* the bound at the minimum of the column over the categorical-filtered table.
DefaultFilters ==
  /\ widgets.selected_values.on =>
       widgets.selected_values.val = Range(ColumnCells(df, widgets.cat_to_filter.val))
  /\ widgets.min_range.on =>
       widgets.min_range.val = col_min(df_filtered_category, widgets.num_to_filter.val)

\* C2: with the filters at their defaults the filtered table equals the
\* loaded table row for row, missing values in the filtered columns or not.
C2_DefaultFiltersKeepEveryRow ==
  (Shown /\ DefaultFilters) => df_final = df

\* C3: when the user leaves no value selected in the categorical filter,
\* the run ends without an exception, shows the results and finds zero
\* rows, also when the numeric filter runs on the emptied table.
C3_EmptySelectionGivesZeroRows ==
  (widgets.selected_values.on /\ widgets.selected_values.val = {}) =>
    /\ Shown
    /\ ~view.escaped
    /\ df_final.rows = <<>>
    /\ view.rows_found = <<0>>
    /\ view.result.rows = <<>>

\* No value selected, numeric columns present: the slider is built from NaN.
C3_Witness ==
  /\ widgets.selected_values.on /\ widgets.selected_values.val = {}
  /\ numeric_cols # <<>>
  /\ widgets.min_range.on /\ widgets.min_range.val = NaN
  /\ Len(df.rows) > 0

\* C4: when pandas cannot parse the uploaded file, the run shows the error
\* message, keeps the table empty, ends in the no-data state without any
\* filter, chart or metric, and lets no exception leave the script.
C4_ParseFailureIsCaught ==
  (source_choice = Upload /\ uploaded_file.present /\ read_csv(uploaded_file.text).raised) =>
    /\ view.error
    /\ ~view.escaped
    /\ df = EmptyDataFrame
    /\ view.state = "nodata"
    /\ widgets = NoWidgets
    /\ view.rows_found = <<>>
    /\ view.chart = NoChart
    /\ ~view.metrics_stage /\ view.metric1 = <<>> /\ view.metric2 = <<>>

\* An uploaded file whose lines differ in their number of fields and that
\* pandas rejects.
C4_Witness ==
  /\ source_choice = Upload /\ uploaded_file.present
  /\ \E i, j \in 1..Len(uploaded_file.text) :
       Len(uploaded_file.text[i]) # Len(uploaded_file.text[j])
  /\ read_csv(uploaded_file.text).raised
  /\ view.error

\* The sum of chart_y over the rows of the filtered table whose chart_x is key.
GroupSum(key) ==
  SumSeq([i \in 1..Len(df_final.rows) |->
            IF FinalCell(i, widgets.chart_x.val) = key
               /\ FinalCell(i, widgets.chart_y.val).k = "num"
            THEN FinalCell(i, widgets.chart_y.val).n ELSE 0])

GroupKeys ==
  {c \in Range(ColumnCells(df_final, widgets.chart_x.val)) : c.k # "nan"}

\* The sum of chart_y over the rows of the filtered table that have a group.
GrandTotal ==
  SumSeq([i \in 1..Len(df_final.rows) |->
            IF FinalCell(i, widgets.chart_x.val).k # "nan"
               /\ FinalCell(i, widgets.chart_y.val).k = "num"
            THEN FinalCell(i, widgets.chart_y.val).n ELSE 0])

\* C5: in the Pie Chart branch the warning is shown exactly when the grand
\* total of the group sums is zero; for every other grand total the groups
\* shown are at most three, each with its sum times 100 over the grand
\* total, in descending order, none smaller than a group left out.
C5_CompositionUnlessTotalIsZero ==
  (Shown /\ view.chart.kind = Pie) =>
    /\ view.chart.warning <=> GrandTotal = 0
    /\ GrandTotal # 0 =>
         LET top == view.chart.top_groups IN
         /\ Len(top) = IF Cardinality(GroupKeys) < 3 THEN Cardinality(GroupKeys) ELSE 3
         /\ \A i \in 1..Len(top) :
              /\ top[i].key \in GroupKeys
              /\ top[i].n = GroupSum(top[i].key) * 100
              /\ top[i].d = GrandTotal
         /\ \A i, j \in 1..Len(top) : i < j => top[i].n * top[j].d >= top[j].n * top[i].d
         /\ \A i \in 1..Len(top) :
              \A k \in GroupKeys \ {top[j].key : j \in 1..Len(top)} :
                GroupSum(k) <= GroupSum(top[i].key)

\* The Sales sample with Category filtered to Electronics and the slider
\* where the script put it.
ElectronicsOnly ==
  /\ source_choice = Sample /\ sample_name = Sales
  /\ Shown
  /\ widgets.cat_to_filter.val = "Category"
  /\ widgets.selected_values.val = {S("Electronics")}
  /\ widgets.min_range.val = widgets.min_range.default

ProductIds == [i \in 1..Len(df_final.rows) |-> FinalCell(i, "Product_ID")]

\* C6 as written: the Sales sample filtered to Electronics has 3 rows, the
\* products 1, 3, 5, 9.
C6_ElectronicsHasThreeRows ==
  ElectronicsOnly =>
    /\ Len(df_final.rows) = 3
    /\ Range(ProductIds) = {N(1), N(3), N(5), N(9)}

\* C6 amended: the Sales sample has 10 rows and, filtered to Electronics
\* with the numeric filter at its default, 4 rows: the products 1, 3, 5, 9
\* in this order.
C6_ElectronicsHasFourRows ==
  /\ (source_choice = Sample /\ sample_name = Sales) => Len(df.rows) = 10
  /\ ElectronicsOnly =>
       /\ Len(df_final.rows) = 4
       /\ view.rows_found = <<4>>
       /\ ProductIds = <<N(1), N(3), N(5), N(9)>>

C6_Witness == ElectronicsOnly

\* The Team sample with Department filtered to Engineering and the slider
\* where the script put it.
EngineeringOnly ==
  /\ source_choice = Sample /\ sample_name = Team
  /\ Shown
  /\ widgets.cat_to_filter.val = "Department"
  /\ widgets.selected_values.val = {S("Engineering")}
  /\ widgets.min_range.val = widgets.min_range.default

\* C7: the Team sample, seven fields a line under six header names, loads
\* as 8 rows with the six header columns; filtered to Engineering it has
\* the 4 rows of T101, T401, T504, T806, Performance_Score summing to 341:
\* a mean of 85.25.
C7_TeamSampleEngineering ==
  /\ (source_choice = Sample /\ sample_name = Team) =>
       /\ \A i \in 3..Len(TEAM_DATA_CSV) :
            Len(TEAM_DATA_CSV[i]) = 7 /\ Len(TEAM_DATA_CSV[2]) = 6
       /\ ~view.escaped
       /\ Len(df.rows) = 8
       /\ df.columns = <<"Employee_ID", "Full_Name", "Department",
                         "Years_of_Service", "Performance_Score", "Review_Rating">>
  /\ EngineeringOnly =>
       /\ [i \in 1..Len(df_final.rows) |-> df_final.rows[i].index]
            = << <<S("T101")>>, <<S("T401")>>, <<S("T504")>>, <<S("T806")>> >>
       /\ \A i \in 1..Len(df_final.rows) : FinalCell(i, "Department") = S("Engineering")
       /\ [i \in 1..Len(df_final.rows) |-> FinalCell(i, "Performance_Score")]
            = <<N(92), N(79), N(88), N(82)>>
       /\ view.metric1 = <<[label |-> "Average Performance Score", n |-> 341, d |-> 4]>>
       /\ 341 * 100 = 8525 * 4

C7_Witness == EngineeringOnly

\* The runs the claim C8 is about: the display section was reached with an
\* empty filtered table or without numeric columns.
NothingToChart == Shown /\ (df_final.rows = <<>> \/ numeric_cols = <<>>)

NoChartNoMetric ==
  /\ view.chart = NoChart
  /\ ~view.metrics_stage
  /\ view.metric1 = <<>> /\ view.metric2 = <<>>
  /\ ~widgets.chart_type.on /\ ~widgets.chart_x.on /\ ~widgets.chart_y.on

\* C8 as written: such a run computes no chart and no metric and shows a
\* row count of zero.
C8_NothingToChartShowsZeroRows ==
  NothingToChart => (NoChartNoMetric /\ view.rows_found = <<0>>)

\* C8 amended: such a run computes no chart and no metric; the row count
\* it shows is the number of rows of the filtered table, zero when that
\* table is empty and not zero when it has rows but no numeric column.
C8_NothingToChartShowsRowCount ==
  /\ NothingToChart => NoChartNoMetric
  /\ Shown => view.rows_found = <<Len(df_final.rows)>>
  /\ (Shown /\ df_final.rows = <<>>) => view.rows_found = <<0>>
  /\ (Shown /\ df_final.rows # <<>>) => view.rows_found # <<0>>

\* A table with rows and without numeric columns.
C8_Witness == Shown /\ numeric_cols = <<>> /\ df_final.rows # <<>>

\* The sum of a column of the filtered table, missing values left out, and
\* the number of its values.
FinalNums(name) ==
  SelectSeq([i \in 1..Len(df_final.rows) |-> FinalCell(i, name)], LAMBDA c : c.k = "num")

FinalSum(name) == SumSeq([i \in 1..Len(FinalNums(name)) |-> FinalNums(name)[i].n])

Present(name) == name \in Range(df_final.columns)

CurrentText ==
  IF source_choice = Sample
  THEN IF sample_name = Sales THEN SALES_DATA_CSV ELSE TEAM_DATA_CSV
  ELSE IF uploaded_file.present THEN uploaded_file.text ELSE <<>>

\* The row consists of the fields of a data line of the current source.
FromCurrentSource(r) ==
  \E i \in 2..Len(CurrentText) :
    LET line == CurrentText[i]
        padded(w) == [j \in 1..w |-> IF j <= Len(line) THEN line[j] ELSE NaN]
    IN /\ Len(line) > 0
       /\ \/ Len(line) <= Len(r.cells) /\ padded(Len(r.cells)) = r.cells
          \/ /\ Len(line) <= Len(r.index) + Len(r.cells)
             /\ padded(Len(r.index) + Len(r.cells)) = r.index \o r.cells

TablesOfRun == {df, df_filtered_category, df_final, view.preview, view.result}

\* C10: whatever the user did before, the tables of a run hold rows and
\* columns of the current source only, the preview is the table just
\* loaded, every value a chart shows is a value of the filtered table, and
\* a run on the uploader without a file ends in the no-data state with
\* nothing loaded and nothing displayed.
C10_TableIsBuiltFromCurrentSource ==
  /\ \A t \in TablesOfRun :
       /\ \A i \in 1..Len(t.rows) : FromCurrentSource(t.rows[i])
       /\ \A j \in 1..Len(t.columns) :
            \E i \in 1..Len(CurrentText) :
              \E c \in 1..Len(CurrentText[i]) : CurrentText[i][c] = S(t.columns[j])
  /\ Shown => (view.preview = df /\ view.result = df_final)
  /\ \A i \in 1..Len(view.chart.bar) : view.chart.bar[i].key \in GroupKeys
  /\ \A i \in 1..Len(view.chart.top_groups) : view.chart.top_groups[i].key \in GroupKeys
  /\ \A i \in 1..Len(view.chart.line) :
       view.chart.line[i] = <<FinalCell(i, widgets.chart_x.val), FinalCell(i, widgets.chart_y.val)>>
  /\ \A i \in 1..Len(view.chart.hist) :
       view.chart.hist[i].key \in Range(ColumnCells(df_final, widgets.chart_y.val))
  /\ (source_choice = Upload /\ ~uploaded_file.present) =>
       /\ view.state = "nodata"
       /\ \A t \in TablesOfRun : t = EmptyDataFrame
       /\ widgets = NoWidgets
       /\ view.chart = NoChart /\ view.metric1 = <<>> /\ view.metric2 = <<>>

\* The Team sample is shown: the source was switched from the uploader to
\* the samples and the sample from Sales, where its selectbox starts, to Team.
C10_Witness ==
  /\ source_choice = Sample /\ sample_name = Team
  /\ Shown /\ view.metrics_stage
  /\ Len(view.preview.rows) = 8

====
